---- MODULE Spec2Model ----
(***************************************************************************)
(* RealStack on-chain program (src/contracts/src): the asset registry      *)
(* (asset_token.rs), the governance engine (governance.rs) and the         *)
(* platform token ledger (tokenomics.rs), each instruction one atomic      *)
(* action over the accounts it is handed.                                  *)
(*                                                                         *)
(* Machine integers keep their Rust width.  TLC's own integers are 32 bit, *)
(* so a u64 / u128 / i64 value is held as an exact natural number written  *)
(* in base 2^16 (least significant digit first, no leading zero digit),    *)
(* with a sign for i64, and every range check is made against the real     *)
(* 2^64 - 1, 2^128 - 1 and +-2^63.                                         *)
(***************************************************************************)
EXTENDS Integers, Sequences, FiniteSets, TLC

(***************************************************************************)
(* Exact natural-number arithmetic (the values of u64 and u128).           *)
(***************************************************************************)
Base == 2^16

Hd(s) == IF s = <<>> THEN 0 ELSE Head(s)
Tl(s) == IF s = <<>> THEN <<>> ELSE Tail(s)

RECURSIVE Strip(_)
Strip(s) ==
  IF s = <<>> THEN <<>>
  ELSE IF s[Len(s)] = 0 THEN Strip(SubSeq(s, 1, Len(s) - 1)) ELSE s

RECURSIVE Big(_)
Big(n) == IF n = 0 THEN <<>> ELSE <<n % Base>> \o Big(n \div Base)

RECURSIVE Small(_)
Small(b) == IF b = <<>> THEN 0 ELSE Head(b) + Base * Small(Tail(b))

RECURSIVE AddC(_, _, _)
AddC(a, b, c) ==
  IF a = <<>> /\ b = <<>>
  THEN (IF c = 0 THEN <<>> ELSE <<c>>)
  ELSE LET x == Hd(a) + Hd(b) + c
       IN  <<x % Base>> \o AddC(Tl(a), Tl(b), x \div Base)

BigAdd(a, b) == AddC(a, b, 0)

RECURSIVE CmpTop(_, _)
CmpTop(a, b) ==
  IF a = <<>> THEN 0
  ELSE LET n == Len(a)
       IN  IF a[n] < b[n] THEN -1
           ELSE IF a[n] > b[n] THEN 1
           ELSE CmpTop(SubSeq(a, 1, n - 1), SubSeq(b, 1, n - 1))

BigCmp(a, b) ==
  IF Len(a) < Len(b) THEN -1
  ELSE IF Len(a) > Len(b) THEN 1
  ELSE CmpTop(a, b)

BigLe(a, b) == BigCmp(a, b) <= 0
BigLt(a, b) == BigCmp(a, b) < 0

RECURSIVE SubB(_, _, _)
SubB(a, b, w) ==
  IF a = <<>> THEN <<>>
  ELSE LET x == Hd(a) - Hd(b) - w
       IN  <<x % Base>> \o SubB(Tl(a), Tl(b), IF x < 0 THEN 1 ELSE 0)

\* a - b for a >= b
BigSub(a, b) == Strip(SubB(a, b, 0))

RECURSIVE MulC(_, _, _)
MulC(a, k, c) ==
  IF a = <<>> THEN Big(c)
  ELSE LET x == Head(a) * k + c
       IN  <<x % Base>> \o MulC(Tail(a), k, x \div Base)

\* a * k for a native 0 <= k < 2^15
BigMul(a, k) == Strip(MulC(a, k, 0))

\* floor(a / b) and a mod b for b > 0, by doubling the divisor
RECURSIVE DivMod(_, _)
DivMod(a, b) ==
  IF BigLt(a, b) THEN [q |-> <<>>, r |-> a]
  ELSE LET h == DivMod(a, BigAdd(b, b))
           q2 == BigAdd(h.q, h.q)
       IN  IF BigLe(b, h.r)
           THEN [q |-> BigAdd(q2, <<1>>), r |-> BigSub(h.r, b)]
           ELSE [q |-> q2, r |-> h.r]

BigDiv(a, b) == DivMod(a, b).q

\* floor(a / k) and a mod k for a native 0 < k < 2^15, limb by limb
RECURSIVE DivSmall(_, _)
DivSmall(a, k) ==
  IF a = <<>> THEN [q |-> <<>>, r |-> 0]
  ELSE LET h == DivSmall(Tail(a), k)
           x == Head(a) + Base * h.r
       IN  [q |-> <<x \div k>> \o h.q, r |-> x % k]

BigDivSmall(a, k) == Strip(DivSmall(a, k).q)

(***************************************************************************)
(* Signed integers (the values of i64): a sign and a magnitude.            *)
(***************************************************************************)
Int64(n) == [neg |-> n < 0, mag |-> Big(IF n < 0 THEN -n ELSE n)]

IntAdd(x, y) ==
  IF x.neg = y.neg
  THEN [neg |-> x.neg, mag |-> BigAdd(x.mag, y.mag)]
  ELSE IF BigLt(x.mag, y.mag)
       THEN [neg |-> y.neg, mag |-> BigSub(y.mag, x.mag)]
       ELSE LET m == BigSub(x.mag, y.mag)
            IN  [neg |-> x.neg /\ m # <<>>, mag |-> m]

IntLe(x, y) ==
  IF x.neg /\ ~y.neg THEN TRUE
  ELSE IF ~x.neg /\ y.neg THEN FALSE
  ELSE IF x.neg THEN BigLe(y.mag, x.mag)
  ELSE BigLe(x.mag, y.mag)

IntLt(x, y) == ~IntLe(y, x)

(***************************************************************************)
(* The Rust integer types and the checked operations the program uses.     *)
(***************************************************************************)
U64_MAX  == <<65535, 65535, 65535, 65535>>
U128_MAX == <<65535, 65535, 65535, 65535, 65535, 65535, 65535, 65535>>
I64_MAX  == [neg |-> FALSE, mag |-> <<65535, 65535, 65535, 32767>>]
I64_MIN  == [neg |-> TRUE,  mag |-> <<0, 0, 0, 32768>>]

None    == [some |-> FALSE]
Some(v) == [some |-> TRUE, v |-> v]

\* u64::checked_add
checked_add_u64(a, b) ==
  LET s == BigAdd(a, b)
  IN  IF BigLe(s, U64_MAX) THEN Some(s) ELSE None

\* i64::checked_add
checked_add_i64(a, b) ==
  LET s == IntAdd(a, b)
  IN  IF IntLe(I64_MIN, s) /\ IntLe(s, I64_MAX) THEN Some(s) ELSE None

\* `x as u128` of a u64: the value is kept
as_u128(x) == x

\* u128 multiplication: the product, and whether it left the type
mul_u128(a, k) ==
  LET p == BigMul(a, k)
  IN  [v |-> p, overflow |-> ~BigLe(p, U128_MAX)]

\* Option<Pubkey>
NoKey      == {}
SomeKey(k) == {k}

(***************************************************************************)
(* Bounds and input domains of the model.                                  *)
(***************************************************************************)
\* the host clock runs from 0 to MaxTime
MaxTime == 2

\* caller identities (Pubkey of the Signer)
Keys == {"alice", "bob"}

\* account addresses handed to the instructions
AssetIds    == {"asset1"}
ProposalIds == {"prop1"}
Mints       == {"mint1"}

\* instruction arguments
Valuations   == {Big(1000), Big(2000)}
SharePrices  == {Big(10)}
ShareCounts  == {Big(100)}

\* new_share_price arguments of update_asset_valuation
NewSharePrices == {Big(10), Big(20)}

\* 0, 2^63 - 1 and 2^63: their sums reach u64::MAX exactly and pass it
Amounts      == {<<>>, I64_MAX.mag, I64_MIN.mag}

\* voter identities
Voters == {"alice", "bob", "carol"}

\* (vote_yes, vote_weight) arguments of vote_on_proposal
Ballots == {<<TRUE, Big(70)>>, <<FALSE, Big(20)>>, <<TRUE, Big(15)>>, <<TRUE, U64_MAX>>}

\* title / description arguments of create_proposal
Titles       == {"", "T"}
Descriptions == {"", "D"}

\* voting_ends_at arguments of create_proposal
EndTimes == {Int64(t) : t \in 0..MaxTime}

\* GovernanceConfig accounts that may be handed to an instruction
Configs ==
  { [authority |-> "alice", min_voting_period |-> Int64(1),
     max_voting_period |-> Int64(2), min_quorum_votes |-> Big(100),
     approval_threshold |-> 60, min_proposal_balance |-> Big(1000),
     min_vote_balance |-> Big(15), governance_active |-> TRUE],
    [authority |-> "alice", min_voting_period |-> Int64(0),
     max_voting_period |-> Int64(1), min_quorum_votes |-> <<>>,
     approval_threshold |-> 81, min_proposal_balance |-> <<>>,
     min_vote_balance |-> Big(20), governance_active |-> FALSE] }

\* voting_ends_at arguments over the whole range of i64
WindowEndTimes == EndTimes \cup {Int64(-1), I64_MIN, I64_MAX}

\* GovernanceConfig accounts with voting periods over the whole range of
\* i64 (a negative minimum, a maximum and a minimum whose sum with the
\* clock leaves i64, a minimum above the maximum) and approval thresholds
\* over the whole range of u8
WindowConfigs ==
  Configs \cup
  { [authority |-> "alice", min_voting_period |-> w[1],
     max_voting_period |-> w[2], min_quorum_votes |-> Big(100),
     approval_threshold |-> w[3], min_proposal_balance |-> Big(1000),
     min_vote_balance |-> Big(15), governance_active |-> TRUE] :
    w \in { <<Int64(-1), Int64(1), 0>>, <<Int64(0), I64_MAX, 100>>,
            <<I64_MAX, I64_MAX, 60>>, <<Int64(2), Int64(1), 60>>,
            <<I64_MIN, Int64(0), 101>>, <<Int64(0), Int64(2), 255>> } }

\* identities that sign token-ledger instructions or are nominated in them
Authorities == {"alice", "bob", "carol"}

\* account addresses handed to initialize
TokenIds == {"real1"}

\* name / symbol / uri arguments of initialize
Names   == {"", "RealStack"}
Symbols == {"", "REAL"}
Uris    == {"uri"}

\* base-2^16 digits from which total supplies are built
Limbs == {0, 32768, 65535}

\* total_supply arguments of initialize: 0, every remainder modulo 100 (on
\* which alone the truncation of an allocation depends), and every u64 with
\* digits in Limbs (among them 2^63 and u64::MAX, whose products with a
\* percentage leave u64)
TotalSupplies ==
  {Big(n) : n \in 0..101} \cup {Big(1000000007)}
    \cup {Strip(<<a, b, c, d>>) : a \in Limbs, b \in Limbs, c \in Limbs, d \in Limbs}

\* the total_supply used where the allocations are not the subject
Supplies == {<<>>, Big(1000)}

\* transaction_fee_bps arguments of update_fee_config (u16)
FeeBps == {1000, 1001, 65535}

(***************************************************************************)
(* State: the host clock, the accounts owned by the program (a function    *)
(* from the addresses that exist to the account data), and the outcome of  *)
(* the most recent instruction, which ran at the current clock value.      *)
(***************************************************************************)
VARIABLES now, assets, proposals, vote_records, real_tokens, last

vars == <<now, assets, proposals, vote_records, real_tokens, last>>

\* outcome of a handler: the error (or "Ok") and the account data as the
\* handler left them in memory when it returned
\* (`out` is what a successful execute_proposal logs, and empty otherwise)
Ok(acc)     == [err |-> "Ok", acc |-> acc, out |-> <<>>]
Err(e, acc) == [err |-> e, acc |-> acc, out |-> <<>>]

\* the record of the last instruction
Outcome(op, signer, key, r) ==
  [op |-> op, signer |-> signer, key |-> key, err |-> r.err, out |-> r.out]

\* no instruction has run since the clock last advanced
NoOutcome == [op |-> "none", signer |-> "", key |-> "", err |-> "", out |-> <<>>]

(***************************************************************************)
(* Asset registry: asset_token.rs                                          *)
(***************************************************************************)
\* asset_token_operations::create_asset_token
create_asset_token(authority, mint, valuation, total_shares, share_price, t) ==
  Ok([authority |-> authority,
      mint |-> mint,
      name |-> "name", symbol |-> "SYM", category |-> "category",
      description |-> "description", uri |-> "uri",
      valuation |-> valuation,
      total_shares |-> total_shares,
      initial_share_price |-> share_price,
      current_share_price |-> share_price,
      is_verified |-> FALSE,
      verifier |-> NoKey,
      verified_at |-> Int64(0),
      is_tradable |-> FALSE,
      created_at |-> t,
      updated_at |-> t,
      liquidity_pool |-> NoKey,
      income_distribution_frequency |-> "Monthly",
      last_income_distribution |-> Int64(0),
      total_income_distributed |-> <<>>,
      can_mint_additional |-> FALSE,
      is_burned |-> FALSE])

\* a valuation update that also rebases the initial share price
update_asset_valuation_rebased(asset_token, new_valuation, new_share_price, t) ==
  Ok([asset_token EXCEPT !.valuation = new_valuation,
                         !.initial_share_price = new_share_price,
                         !.current_share_price = new_share_price,
                         !.updated_at = t])

\* asset_token_operations::update_asset_valuation
update_asset_valuation(asset_token, new_valuation, new_share_price, t) ==
  Ok([asset_token EXCEPT !.valuation = new_valuation,
                         !.current_share_price = new_share_price,
                         !.updated_at = t])

\* a verification that can be given once only
verify_asset_once(asset_token, verifier, t) ==
  IF asset_token.is_verified THEN Err("InvalidParameters", asset_token)
  ELSE Ok([asset_token EXCEPT !.is_verified = TRUE,
                              !.verifier = SomeKey(verifier),
                              !.verified_at = t,
                              !.updated_at = t])

\* asset_token_operations::verify_asset
verify_asset(asset_token, verifier, t) ==
  Ok([asset_token EXCEPT !.is_verified = TRUE,
                         !.verifier = SomeKey(verifier),
                         !.verified_at = t,
                         !.updated_at = t])

\* asset_token_operations::toggle_tradability
toggle_tradability(asset_token, is_tradable, t) ==
  Ok([asset_token EXCEPT !.is_tradable = is_tradable,
                         !.updated_at = t])

\* a burn that forgets to clear the tradability flag
burn_asset_token_keeps_tradable(asset_token, t) ==
  IF asset_token.is_burned THEN Err("AssetAlreadyBurned", asset_token)
  ELSE Ok([asset_token EXCEPT !.is_burned = TRUE, !.updated_at = t])

\* asset_token_operations::burn_asset_token
burn_asset_token(asset_token, t) ==
  IF asset_token.is_burned THEN Err("AssetAlreadyBurned", asset_token)
  ELSE Ok([asset_token EXCEPT !.is_burned = TRUE,
                              !.is_tradable = FALSE,
                              !.updated_at = t])

\* an income distribution that records the last amount instead of the sum
distribute_income_last_amount(asset_token, amount, t) ==
  IF asset_token.is_burned THEN Err("AssetBurned", asset_token)
  ELSE Ok([asset_token EXCEPT !.last_income_distribution = t,
                              !.total_income_distributed = amount,
                              !.updated_at = t])

\* asset_token_operations::distribute_income
distribute_income(asset_token, amount, t) ==
  IF asset_token.is_burned THEN Err("AssetBurned", asset_token)
  ELSE LET a1  == [asset_token EXCEPT !.last_income_distribution = t]
           sum == checked_add_u64(a1.total_income_distributed, amount)
       IN  IF ~sum.some THEN Err("MathOverflow", a1)
           ELSE Ok([a1 EXCEPT !.total_income_distributed = sum.v,
                              !.updated_at = t])

(***************************************************************************)
(* The Accounts structs: what is checked of the accounts handed to an      *)
(* instruction before its handler runs (r is the handler's outcome, used   *)
(* only when the checks pass).                                             *)
(***************************************************************************)
\* an init that takes an address in use as well
InitAccountAnyway(accounts, key, r) == r

\* #[account(init, ...)]: the address must not hold an account yet
InitAccount(accounts, key, r) ==
  IF key \in DOMAIN accounts THEN Err("AccountAlreadyInUse", <<>>) ELSE r

\* Account<'info, T>: the address must hold an account of the program
ExistingAccount(accounts, key, r) ==
  IF key \notin DOMAIN accounts THEN Err("AccountNotInitialized", <<>>) ELSE r

\* constraint = asset_token.authority == authority.key() @ Unauthorized
AuthorityConstraint(accounts, key, signer, r) ==
  ExistingAccount(accounts, key,
    IF accounts[key].authority # signer THEN Err("Unauthorized", accounts[key])
    ELSE r)

CreateAssetTokenAccounts(a, r) == InitAccount(assets, a, r)

UpdateAssetValuationAccounts(signer, a, r) == AuthorityConstraint(assets, a, signer, r)

VerifyAssetAccounts(a, r) == ExistingAccount(assets, a, r)

DistributeIncomeAccounts(signer, a, r) == AuthorityConstraint(assets, a, signer, r)

ToggleTradabilityAccounts(signer, a, r) == AuthorityConstraint(assets, a, signer, r)

\* a burn open to every signer
BurnAssetTokenAccountsAnyone(signer, a, r) == ExistingAccount(assets, a, r)

BurnAssetTokenAccounts(signer, a, r) == AuthorityConstraint(assets, a, signer, r)

\* a write-back that keeps what a failed handler left in the account
StoreAlways(accounts, key, err, acc) ==
  IF acc = <<>> THEN accounts
  ELSE IF key \in DOMAIN accounts THEN [accounts EXCEPT ![key] = acc]
  ELSE (key :> acc) @@ accounts

\* Result<()> of an instruction, for the account at `key`: the data the
\* handler left are written back only when it returned Ok(()); on Err the
\* transaction is rolled back and nothing of it is kept
Store(accounts, key, err, acc) ==
  IF err # "Ok" THEN accounts
  ELSE IF key \in DOMAIN accounts THEN [accounts EXCEPT ![key] = acc]
  ELSE (key :> acc) @@ accounts

(***************************************************************************)
(* The instructions of the asset registry (lib.rs, #[program]).            *)
(***************************************************************************)
AssetStep(op, signer, a, result) ==
  \E r \in {result} :
    /\ assets' = Store(assets, a, r.err, r.acc)
    /\ last' = Outcome(op, signer, a, r)
    /\ UNCHANGED <<now, proposals, vote_records, real_tokens>>

CreateAssetToken(signer, a, mint, valuation, total_shares, share_price) ==
  AssetStep("create_asset_token", signer, a,
    CreateAssetTokenAccounts(a,
      create_asset_token(signer, mint, valuation, total_shares, share_price, now)))

UpdateAssetValuation(signer, a, new_valuation, new_share_price) ==
  AssetStep("update_asset_valuation", signer, a,
    UpdateAssetValuationAccounts(signer, a,
      update_asset_valuation(assets[a], new_valuation, new_share_price, now)))

VerifyAsset(signer, a) ==
  AssetStep("verify_asset", signer, a,
    VerifyAssetAccounts(a, verify_asset(assets[a], signer, now)))

ToggleTradability(signer, a, is_tradable) ==
  AssetStep("toggle_tradability", signer, a,
    ToggleTradabilityAccounts(signer, a,
      toggle_tradability(assets[a], is_tradable, now)))

BurnAssetToken(signer, a) ==
  AssetStep("burn_asset_token", signer, a,
    BurnAssetTokenAccounts(signer, a, burn_asset_token(assets[a], now)))

DistributeIncome(signer, a, amount) ==
  AssetStep("distribute_income", signer, a,
    DistributeIncomeAccounts(signer, a,
      distribute_income(assets[a], amount, now)))

(***************************************************************************)
(* Governance engine: governance.rs                                        *)
(***************************************************************************)
\* a snapshot that takes no quorum from the configuration
config_snapshot_without_quorum(governance_config) ==
  [min_voting_period |-> governance_config.min_voting_period,
   quorum_votes |-> <<>>,
   approval_threshold_percentage |-> governance_config.approval_threshold]

\* create_proposal: the fields of the proposal copied from GovernanceConfig
config_snapshot(governance_config) ==
  [min_voting_period |-> governance_config.min_voting_period,
   quorum_votes |-> governance_config.min_quorum_votes,
   approval_threshold_percentage |-> governance_config.approval_threshold]

\* a voting period with no minimum
ends_after_minimum_always(voting_ends_at, min_end_time) == TRUE

\* create_proposal: voting_ends_at >= min_end_time
ends_after_minimum(voting_ends_at, min_end_time) == IntLe(min_end_time, voting_ends_at)

\* governance_operations::create_proposal
create_proposal(proposer, title, description, voting_ends_at, governance_config, t) ==
  IF title = "" THEN Err("InvalidParameters", <<>>)
  ELSE IF description = "" THEN Err("InvalidParameters", <<>>)
  ELSE LET min_end_time == checked_add_i64(t, governance_config.min_voting_period)
           max_end_time == checked_add_i64(t, governance_config.max_voting_period)
       IN  IF ~min_end_time.some THEN Err("MathOverflow", <<>>)
           ELSE IF ~max_end_time.some THEN Err("MathOverflow", <<>>)
           ELSE IF ~ends_after_minimum(voting_ends_at, min_end_time.v)
                THEN Err("InvalidVotingPeriod", <<>>)
           ELSE IF ~IntLe(voting_ends_at, max_end_time.v)
                THEN Err("InvalidVotingPeriod", <<>>)
           ELSE Ok([title |-> title,
                    description |-> description,
                    proposer |-> proposer,
                    is_active |-> TRUE,
                    creation_timestamp |-> t,
                    voting_ends_at |-> voting_ends_at,
                    yes_votes |-> <<>>,
                    no_votes |-> <<>>,
                    executed |-> FALSE,
                    proposal_type |-> "Text",
                    target_accounts |-> <<>>,
                    execution_data |-> <<>>,
                    executed_at |-> Int64(0),
                    executor |-> NoKey] @@ config_snapshot(governance_config))

\* a voting window that is still open at voting_ends_at itself
voting_open_until_end(t, voting_ends_at) == IntLe(t, voting_ends_at)

\* a voting window that never closes
voting_open_forever(t, voting_ends_at) == TRUE

\* vote_on_proposal: current_timestamp < proposal.voting_ends_at
voting_open(t, voting_ends_at) == IntLt(t, voting_ends_at)

\* a tally that counts every vote as a yes
update_vote_counts_all_yes(proposal, vote_yes, vote_weight) ==
  LET sum == checked_add_u64(proposal.yes_votes, vote_weight)
  IN  IF sum.some THEN Some([proposal EXCEPT !.yes_votes = sum.v]) ELSE None

\* vote_on_proposal, "Update vote counts": the proposal with the weight
\* added to one tally, or None when the checked addition overflows
update_vote_counts(proposal, vote_yes, vote_weight) ==
  IF vote_yes
  THEN LET sum == checked_add_u64(proposal.yes_votes, vote_weight)
       IN  IF sum.some THEN Some([proposal EXCEPT !.yes_votes = sum.v]) ELSE None
  ELSE LET sum == checked_add_u64(proposal.no_votes, vote_weight)
       IN  IF sum.some THEN Some([proposal EXCEPT !.no_votes = sum.v]) ELSE None

\* governance_operations::vote_on_proposal; the accounts it writes are the
\* proposal and the freshly created vote record
\* a minimum balance that is met only while governance is active
min_vote_balance_met_while_active(vote_weight, governance_config) ==
  /\ governance_config.governance_active
  /\ BigLe(governance_config.min_vote_balance, vote_weight)

\* a minimum balance that every weight meets
min_vote_balance_met_always(vote_weight, governance_config) == TRUE

\* vote_on_proposal: vote_weight >= governance_config.min_vote_balance
min_vote_balance_met(vote_weight, governance_config) ==
  BigLe(governance_config.min_vote_balance, vote_weight)

vote_on_proposal(proposal, proposal_key, voter, vote_yes, vote_weight, governance_config, t) ==
  IF ~proposal.is_active
  THEN Err("ProposalInactive", [proposal |-> proposal, vote_record |-> <<>>])
  ELSE IF ~voting_open(t, proposal.voting_ends_at)
  THEN Err("VotingPeriodEnded", [proposal |-> proposal, vote_record |-> <<>>])
  ELSE IF ~min_vote_balance_met(vote_weight, governance_config)
  THEN Err("InvalidParameters", [proposal |-> proposal, vote_record |-> <<>>])
  ELSE LET vote_record == [proposal |-> proposal_key,
                           voter |-> voter,
                           is_yes_vote |-> vote_yes,
                           vote_weight |-> vote_weight,
                           timestamp |-> t]
           counted == update_vote_counts(proposal, vote_yes, vote_weight)
       IN  IF ~counted.some
           THEN Err("MathOverflow", [proposal |-> proposal, vote_record |-> vote_record])
           ELSE Ok([proposal |-> counted.v, vote_record |-> vote_record])

\* `x as u64` of a u128: the low 64 bits
as_u64(x) == Strip(SubSeq(x, 1, IF Len(x) < 4 THEN Len(x) ELSE 4))

\* a yes percentage whose product is formed in u64 and wraps
yes_percentage_in_u64(yes_votes, total_votes) ==
  IF total_votes # <<>>
  THEN LET p == BigMul(yes_votes, 100)
       IN  [v |-> BigDiv(as_u64(p), total_votes), overflow |-> ~BigLe(p, U64_MAX)]
  ELSE [v |-> <<>>, overflow |-> FALSE]

\* execute_proposal, "Check if approval threshold was met": the percentage
\* (yes_votes as u128 * 100) / total_votes as u128, or 0 without votes
yes_percentage_of(yes_votes, total_votes) ==
  IF total_votes # <<>>
  THEN LET p == mul_u128(as_u128(yes_votes), 100)
       IN  [v |-> BigDiv(p.v, as_u128(total_votes)), overflow |-> p.overflow]
  ELSE [v |-> <<>>, overflow |-> FALSE]

\* a voting period that counts as ended only after voting_ends_at
voting_ended_strictly(t, voting_ends_at) == IntLt(voting_ends_at, t)

\* a voting period that counts as ended at any time
voting_ended_always(t, voting_ends_at) == TRUE

\* execute_proposal: current_timestamp >= proposal.voting_ends_at
voting_ended(t, voting_ends_at) == IntLe(voting_ends_at, t)

\* a quorum check that passes totals below the quorum
quorum_reached_below(total_votes, quorum_votes) == BigLe(total_votes, quorum_votes)

\* a quorum check that any vote at all satisfies
quorum_reached_by_any_vote(total_votes, quorum_votes) == total_votes # <<>>

\* a quorum check that lets every total pass
quorum_reached_always(total_votes, quorum_votes) == TRUE

\* execute_proposal: total_votes >= proposal.quorum_votes
quorum_reached(total_votes, quorum_votes) == BigLe(quorum_votes, total_votes)

\* governance_operations::execute_proposal; out is what it logs
\* an execution that does not record who executed
mark_executed_anonymously(proposal, executor, t) ==
  [proposal EXCEPT !.executed = TRUE,
                   !.is_active = FALSE,
                   !.executed_at = t]

\* an execution that leaves the proposal active
mark_executed_keeps_active(proposal, executor, t) ==
  [proposal EXCEPT !.executed = TRUE,
                   !.executed_at = t,
                   !.executor = SomeKey(executor)]

\* execute_proposal, "Update proposal state"
mark_executed(proposal, executor, t) ==
  [proposal EXCEPT !.executed = TRUE,
                   !.is_active = FALSE,
                   !.executed_at = t,
                   !.executor = SomeKey(executor)]

execute_proposal(proposal, executor, t) ==
  IF ~proposal.is_active
  THEN Err("ProposalInactive", proposal)
  ELSE IF ~voting_ended(t, proposal.voting_ends_at)
  THEN Err("VotingPeriodNotEnded", proposal)
  ELSE IF proposal.executed
  THEN Err("ProposalAlreadyExecuted", proposal)
  ELSE LET total_votes == checked_add_u64(proposal.yes_votes, proposal.no_votes)
       IN  IF ~total_votes.some
           THEN Err("MathOverflow", proposal)
           ELSE IF ~quorum_reached(total_votes.v, proposal.quorum_votes)
           THEN Err("InvalidParameters", proposal)
           ELSE LET yes_percentage == yes_percentage_of(proposal.yes_votes, total_votes.v)
                    approved == BigLe(Big(proposal.approval_threshold_percentage),
                                      yes_percentage.v)
                IN  [err |-> "Ok",
                     acc |-> mark_executed(proposal, executor, t),
                     out |-> [yes_percentage |-> yes_percentage.v,
                              overflow |-> yes_percentage.overflow,
                              approved |-> approved]]

\* the address of the vote record: seeds "vote_record", proposal, voter
VoteRecordKey(proposal_key, voter) == <<proposal_key, voter>>

CreateProposalAccounts(p, r) == InitAccount(proposals, p, r)

\* a vote record that is written without `init`, whether or not it exists
VoteOnProposalAccountsNoInit(signer, p, r) == ExistingAccount(proposals, p, r)

\* the accounts are checked in the order they are declared: the proposal must
\* exist, then the vote record is created at its derived address
VoteOnProposalAccounts(signer, p, r) ==
  ExistingAccount(proposals, p,
    InitAccount(vote_records, VoteRecordKey(p, signer), r))

ExecuteProposalAccounts(p, r) == ExistingAccount(proposals, p, r)

(***************************************************************************)
(* The instructions of the governance engine (lib.rs, #[program]).         *)
(***************************************************************************)
CreateProposal(signer, p, title, description, voting_ends_at, cfg) ==
  \E r \in {CreateProposalAccounts(p,
             create_proposal(signer, title, description, voting_ends_at, cfg, now))} :
      /\ proposals' = Store(proposals, p, r.err, r.acc)
      /\ last' = Outcome("create_proposal", signer, p, r)
      /\ UNCHANGED <<now, assets, vote_records, real_tokens>>

VoteOnProposal(signer, p, vote_yes, vote_weight, cfg) ==
  \E r \in {VoteOnProposalAccounts(signer, p,
             vote_on_proposal(proposals[p], p, signer, vote_yes, vote_weight, cfg, now))} :
      /\ proposals' = Store(proposals, p, r.err, r.acc.proposal)
      /\ vote_records' = Store(vote_records, VoteRecordKey(p, signer), r.err, r.acc.vote_record)
      /\ last' = Outcome("vote_on_proposal", signer, p, r)
      /\ UNCHANGED <<now, assets, real_tokens>>

ExecuteProposal(signer, p) ==
  \E r \in {ExecuteProposalAccounts(p, execute_proposal(proposals[p], signer, now))} :
      /\ proposals' = Store(proposals, p, r.err, r.acc)
      /\ last' = Outcome("execute_proposal", signer, p, r)
      /\ UNCHANGED <<now, assets, vote_records, real_tokens>>

(***************************************************************************)
(* Token ledger: tokenomics.rs                                             *)
(***************************************************************************)
\* a percentage whose product is formed in u64 and wraps
calculate_percentage_in_u64(value, percentage) ==
  BigDivSmall(as_u64(BigMul(value, percentage)), 100)

\* a percentage rounded up instead of down
calculate_percentage_rounded_up(value, percentage) ==
  as_u64(BigDivSmall(BigAdd(BigMul(value, percentage), Big(99)), 100))

\* token_operations::calculate_percentage:
\* (value as u128 * percentage as u128 / 100) as u64
calculate_percentage(value, percentage) ==
  as_u64(BigDivSmall(mul_u128(as_u128(value), percentage).v, 100))

\* a supply check that lets every supply pass
supply_positive_always(total_supply) == TRUE

\* initialize: total_supply > 0
supply_positive(total_supply) == BigLt(<<>>, total_supply)

\* token_operations::initialize
initialize(authority, mint, name, symbol, uri, total_supply, t) ==
  IF name = "" THEN Err("InvalidParameters", <<>>)
  ELSE IF symbol = "" THEN Err("InvalidParameters", <<>>)
  ELSE IF ~supply_positive(total_supply) THEN Err("InvalidParameters", <<>>)
  ELSE Ok([name |-> name,
           symbol |-> symbol,
           uri |-> uri,
           total_supply |-> total_supply,
           authority |-> authority,
           is_initialized |-> TRUE,
           last_update_timestamp |-> t,
           mint |-> mint,
           transfers_paused |-> FALSE,
           pending_authority |-> NoKey,
           fee_config |-> [transaction_fee_bps |-> 25,
                           fee_recipient |-> authority,
                           fees_enabled |-> TRUE],
           distribution |->
             [community_allocation |-> calculate_percentage(total_supply, 40),
              asset_reserve_allocation |-> calculate_percentage(total_supply, 25),
              development_allocation |-> calculate_percentage(total_supply, 20),
              liquidity_allocation |-> calculate_percentage(total_supply, 10),
              team_allocation |-> calculate_percentage(total_supply, 5)]])

\* a nomination that takes effect at once
transfer_authority_at_once(real_token, new_authority, t) ==
  Ok([real_token EXCEPT !.authority = new_authority,
                        !.pending_authority = SomeKey(new_authority),
                        !.last_update_timestamp = t])

\* a nomination that does not replace one already pending
transfer_authority_keeps_first(real_token, new_authority, t) ==
  IF real_token.pending_authority # NoKey
  THEN Ok([real_token EXCEPT !.last_update_timestamp = t])
  ELSE Ok([real_token EXCEPT !.pending_authority = SomeKey(new_authority),
                             !.last_update_timestamp = t])

\* token_operations::transfer_authority
transfer_authority(real_token, new_authority, t) ==
  Ok([real_token EXCEPT !.pending_authority = SomeKey(new_authority),
                        !.last_update_timestamp = t])

\* token_operations::accept_authority
accept_authority(real_token, new_authority, t) ==
  Ok([real_token EXCEPT !.authority = new_authority,
                        !.pending_authority = NoKey,
                        !.last_update_timestamp = t])

\* a fee within the u16 range, whatever it is
fee_bps_allowed_any(transaction_fee_bps) == TRUE

\* update_fee_config: transaction_fee_bps <= 1000 (at most 10%)
fee_bps_allowed(transaction_fee_bps) == transaction_fee_bps <= 1000

\* token_operations::update_fee_config
update_fee_config(real_token, transaction_fee_bps, fee_recipient, fees_enabled, t) ==
  IF ~fee_bps_allowed(transaction_fee_bps) THEN Err("InvalidParameters", real_token)
  ELSE Ok([real_token EXCEPT !.fee_config =
                               [transaction_fee_bps |-> transaction_fee_bps,
                                fee_recipient |-> fee_recipient,
                                fees_enabled |-> fees_enabled],
                             !.last_update_timestamp = t])

\* token_operations::set_transfer_pause
set_transfer_pause(real_token, paused, t) ==
  Ok([real_token EXCEPT !.transfers_paused = paused,
                        !.last_update_timestamp = t])

\* constraint = real_token.pending_authority == Some(new_authority.key())
\*   @ Unauthorized
PendingAuthorityConstraint(accounts, key, signer, r) ==
  ExistingAccount(accounts, key,
    IF accounts[key].pending_authority # SomeKey(signer)
    THEN Err("Unauthorized", accounts[key])
    ELSE r)

InitializeAccounts(k, r) == InitAccount(real_tokens, k, r)

\* a nomination open to the nominee as well
TransferAuthorityAccountsOrPending(signer, k, r) ==
  ExistingAccount(real_tokens, k,
    IF real_tokens[k].authority # signer
       /\ real_tokens[k].pending_authority # SomeKey(signer)
    THEN Err("Unauthorized", real_tokens[k])
    ELSE r)

TransferAuthorityAccounts(signer, k, r) == AuthorityConstraint(real_tokens, k, signer, r)

\* an acceptance open to every signer
AcceptAuthorityAccountsAnyone(signer, k, r) == ExistingAccount(real_tokens, k, r)

AcceptAuthorityAccounts(signer, k, r) == PendingAuthorityConstraint(real_tokens, k, signer, r)

UpdateFeeConfigAccounts(signer, k, r) == AuthorityConstraint(real_tokens, k, signer, r)

SetTransferPauseAccounts(signer, k, r) == AuthorityConstraint(real_tokens, k, signer, r)

(***************************************************************************)
(* The instructions of the token ledger.                                   *)
(***************************************************************************)
TokenStep(op, signer, k, result) ==
  \E r \in {result} :
    /\ real_tokens' = Store(real_tokens, k, r.err, r.acc)
    /\ last' = Outcome(op, signer, k, r)
    /\ UNCHANGED <<now, assets, proposals, vote_records>>

Initialize(signer, k, mint, name, symbol, uri, total_supply) ==
  TokenStep("initialize", signer, k,
    InitializeAccounts(k, initialize(signer, mint, name, symbol, uri, total_supply, now)))

TransferAuthority(signer, k, new_authority) ==
  TokenStep("transfer_authority", signer, k,
    TransferAuthorityAccounts(signer, k,
      transfer_authority(real_tokens[k], new_authority, now)))

AcceptAuthority(signer, k) ==
  TokenStep("accept_authority", signer, k,
    AcceptAuthorityAccounts(signer, k, accept_authority(real_tokens[k], signer, now)))

UpdateFeeConfig(signer, k, transaction_fee_bps, fee_recipient, fees_enabled) ==
  TokenStep("update_fee_config", signer, k,
    UpdateFeeConfigAccounts(signer, k,
      update_fee_config(real_tokens[k], transaction_fee_bps, fee_recipient,
                        fees_enabled, now)))

SetTransferPause(signer, k, paused) ==
  TokenStep("set_transfer_pause", signer, k,
    SetTransferPauseAccounts(signer, k, set_transfer_pause(real_tokens[k], paused, now)))

\* the host clock (Clock::get()?.unix_timestamp) never runs backwards
Tick ==
  /\ IntLt(now, Int64(MaxTime))
  /\ now' = IntAdd(now, Int64(1))
  /\ last' = NoOutcome
  /\ UNCHANGED <<assets, proposals, vote_records, real_tokens>>

Init ==
  /\ now = Int64(0)
  /\ assets = <<>>
  /\ proposals = <<>>
  /\ vote_records = <<>>
  /\ real_tokens = <<>>
  /\ last = NoOutcome

NextAsset ==
  \/ Tick
  \/ \E s \in Keys, a \in AssetIds, m \in Mints, v \in Valuations,
        n \in ShareCounts, p \in SharePrices : CreateAssetToken(s, a, m, v, n, p)
  \/ \E s \in Keys, a \in AssetIds, v \in Valuations, p \in NewSharePrices :
        UpdateAssetValuation(s, a, v, p)
  \/ \E s \in Keys, a \in AssetIds : VerifyAsset(s, a)
  \/ \E s \in Keys, a \in AssetIds, b \in BOOLEAN : ToggleTradability(s, a, b)
  \/ \E s \in Keys, a \in AssetIds : BurnAssetToken(s, a)
  \/ \E s \in Keys, a \in AssetIds, amt \in Amounts : DistributeIncome(s, a, amt)

SpecAsset == Init /\ [][NextAsset]_vars

NextGov ==
  \/ Tick
  \/ \E s \in Keys, p \in ProposalIds, ti \in Titles, d \in Descriptions,
        e \in EndTimes, cfg \in Configs : CreateProposal(s, p, ti, d, e, cfg)
  \/ \E s \in Voters, p \in ProposalIds, b \in Ballots, cfg \in Configs :
        VoteOnProposal(s, p, b[1], b[2], cfg)
  \/ \E s \in Keys, p \in ProposalIds : ExecuteProposal(s, p)

SpecGov == Init /\ [][NextGov]_vars

NextToken ==
  \/ Tick
  \/ \E s \in Authorities, k \in TokenIds, m \in Mints, n \in Names,
        sy \in Symbols, u \in Uris, ts \in Supplies : Initialize(s, k, m, n, sy, u, ts)
  \/ \E s \in Authorities, k \in TokenIds, n \in Authorities : TransferAuthority(s, k, n)
  \/ \E s \in Authorities, k \in TokenIds : AcceptAuthority(s, k)
  \/ \E s \in Authorities, k \in TokenIds, f \in FeeBps, r \in Keys, e \in BOOLEAN :
        UpdateFeeConfig(s, k, f, r, e)
  \/ \E s \in Authorities, k \in TokenIds, b \in BOOLEAN : SetTransferPause(s, k, b)

SpecToken == Init /\ [][NextToken]_vars

\* initialize alone, over the whole range of total supplies
NextInitialize ==
  \/ Tick
  \/ \E s \in Keys, k \in TokenIds, m \in Mints, n \in Names,
        sy \in Symbols, u \in Uris, ts \in TotalSupplies : Initialize(s, k, m, n, sy, u, ts)

SpecInitialize == Init /\ [][NextInitialize]_vars

\* create_proposal alone, over the whole range of voting periods
NextCreate ==
  \/ Tick
  \/ \E s \in Keys, p \in ProposalIds, ti \in Titles, d \in Descriptions,
        e \in WindowEndTimes, cfg \in WindowConfigs : CreateProposal(s, p, ti, d, e, cfg)

SpecCreate == Init /\ [][NextCreate]_vars

\* the creation of every kind of record, together with the instructions
\* that change an authority, burn, count votes and execute
NextRecords ==
  \/ Tick
  \/ \E s \in Keys, k \in TokenIds, m \in Mints :
        Initialize(s, k, m, "RealStack", "REAL", "uri", Big(1000))
  \/ \E k \in TokenIds : TransferAuthority("alice", k, "bob")
  \/ \E k \in TokenIds : AcceptAuthority("bob", k)
  \/ \E s \in Keys, a \in AssetIds, m \in Mints :
        CreateAssetToken(s, a, m, Big(1000), Big(100), Big(10))
  \/ \E a \in AssetIds : BurnAssetToken("alice", a)
  \/ \E s \in Keys, p \in ProposalIds, e \in EndTimes,
        cfg \in {c \in Configs : c.min_quorum_votes = <<>>} :
        CreateProposal(s, p, "T", "D", e, cfg)
  \/ \E p \in ProposalIds, cfg \in {c \in Configs : c.min_quorum_votes = <<>>} :
        VoteOnProposal("bob", p, TRUE, Big(70), cfg)
  \/ \E p \in ProposalIds : ExecuteProposal("alice", p)

SpecRecords == Init /\ [][NextRecords]_vars

Next == NextAsset \/ NextGov \/ NextToken \/ NextInitialize \/ NextCreate \/ NextRecords

Spec == Init /\ [][Next]_vars

(***************************************************************************)
(* Properties of the asset registry (checked under SpecAsset).             *)
(***************************************************************************)
\* the step just taken is instruction `op` on the account at `key`
Did(op, key) == last'.op = op /\ last'.key = key

\* C1: in every reachable state an asset with is_burned = TRUE has
\* is_tradable = FALSE (a burn pins tradability to false, so that
\* toggle_tradability(true) after a burn cannot make the asset tradable)
C1_BurnPinsTradability ==
  \A a \in DOMAIN assets : assets[a].is_burned => ~assets[a].is_tradable

\* C2: burn_asset_token by the authority on an unburned asset succeeds and
\* sets is_burned = TRUE, is_tradable = FALSE; once is_burned is TRUE no
\* step resets it (nor removes the asset); and every later burn_asset_token
\* by the authority fails with AssetAlreadyBurned and changes nothing
C2_BurnIsTerminal ==
  [][\A a \in DOMAIN assets :
       /\ a \in DOMAIN assets'
       /\ assets[a].is_burned => assets'[a].is_burned
       /\ (Did("burn_asset_token", a) /\ last'.signer = assets[a].authority) =>
            IF assets[a].is_burned
            THEN last'.err = "AssetAlreadyBurned" /\ assets' = assets
            ELSE /\ last'.err = "Ok"
                 /\ assets'[a].is_burned
                 /\ ~assets'[a].is_tradable
       /\ (~assets[a].is_burned /\ assets'[a].is_burned) =>
            /\ Did("burn_asset_token", a)
            /\ last'.err = "Ok"
            /\ last'.signer = assets[a].authority]_vars

\* C2 witness: the authority has tried to burn an asset that was burned
\* while it was tradable
C2_Witness ==
  \E a \in DOMAIN assets :
    /\ assets[a].is_burned
    /\ last.op = "burn_asset_token"
    /\ last.key = a
    /\ last.signer = assets[a].authority
    /\ last.err = "AssetAlreadyBurned"

(***************************************************************************)
(* Properties of the governance engine (checked under SpecGov).            *)
(***************************************************************************)
\* the addresses of the vote records cast on proposal p
RecordsOf(p, is_yes) ==
  {k \in DOMAIN vote_records : k[1] = p /\ vote_records[k].is_yes_vote = is_yes}

RECURSIVE SumWeights(_)
SumWeights(K) ==
  IF K = {} THEN <<>>
  ELSE LET k == CHOOSE x \in K : TRUE
       IN  BigAdd(vote_records[k].vote_weight, SumWeights(K \ {k}))

\* C3: a vote record, once it exists, is never changed or removed; a
\* vote_on_proposal by a voter whose record for the proposal exists is
\* rejected (the address is in use) and changes neither the tallies nor any
\* record; and a record comes to exist only by a successful vote of its own
\* voter, so at most one vote per (proposal, voter) ever succeeds
C3_NoDoubleVoting ==
  [][\A p \in ProposalIds, v \in Voters :
       LET k == VoteRecordKey(p, v) IN
       /\ k \in DOMAIN vote_records =>
            k \in DOMAIN vote_records' /\ vote_records'[k] = vote_records[k]
       /\ (Did("vote_on_proposal", p) /\ last'.signer = v) =>
            IF k \in DOMAIN vote_records
            THEN /\ last'.err = "AccountAlreadyInUse"
                 /\ proposals' = proposals
                 /\ vote_records' = vote_records
            ELSE last'.err = "Ok" <=> k \in DOMAIN vote_records'
       /\ (k \notin DOMAIN vote_records /\ k \in DOMAIN vote_records') =>
            /\ Did("vote_on_proposal", p)
            /\ last'.signer = v
            /\ last'.err = "Ok"
            /\ DOMAIN vote_records' = DOMAIN vote_records \cup {k}]_vars

\* C3 witness: a voter whose record exists has voted again and was rejected
C3_Witness ==
  /\ last.op = "vote_on_proposal"
  /\ last.err = "AccountAlreadyInUse"
  /\ VoteRecordKey(last.key, last.signer) \in DOMAIN vote_records

\* C4: for every proposal yes_votes is the sum of vote_weight over its vote
\* records with is_yes_vote, and no_votes the sum over the others; and a
\* successful vote adds exactly its weight to exactly one tally
C4_TallyConsistency ==
  /\ [](\A p \in DOMAIN proposals :
          /\ proposals[p].yes_votes = SumWeights(RecordsOf(p, TRUE))
          /\ proposals[p].no_votes = SumWeights(RecordsOf(p, FALSE)))
  /\ [][\A p \in DOMAIN proposals :
          (Did("vote_on_proposal", p) /\ last'.err = "Ok") =>
            LET rec == vote_records'[VoteRecordKey(p, last'.signer)] IN
            IF rec.is_yes_vote
            THEN /\ proposals'[p].yes_votes = BigAdd(proposals[p].yes_votes, rec.vote_weight)
                 /\ proposals'[p].no_votes = proposals[p].no_votes
            ELSE /\ proposals'[p].no_votes = BigAdd(proposals[p].no_votes, rec.vote_weight)
                 /\ proposals'[p].yes_votes = proposals[p].yes_votes]_vars

\* C4 witness: three voters have voted, on both sides
C4_Witness ==
  \E p \in DOMAIN proposals :
    /\ Cardinality(RecordsOf(p, TRUE)) = 2
    /\ Cardinality(RecordsOf(p, FALSE)) = 1
    /\ proposals[p].yes_votes = Big(85)
    /\ proposals[p].no_votes = Big(20)

\* the clock values of the model
Times == {Int64(t) : t \in 0..MaxTime}

\* the exact sum yes_votes + no_votes of a proposal
TotalVotes(proposal) == BigAdd(proposal.yes_votes, proposal.no_votes)

\* C5: a proposal's executed flag is never reset (nor its execution time
\* changed); it is set only by a successful execute_proposal run at a time
\* now >= voting_ends_at, which becomes executed_at; hence in every state
\* executed implies executed_at >= voting_ends_at
C5_OneTimeExecution ==
  /\ [](\A p \in DOMAIN proposals :
          proposals[p].executed =>
            IntLe(proposals[p].voting_ends_at, proposals[p].executed_at))
  /\ [][\A p \in DOMAIN proposals :
          /\ p \in DOMAIN proposals'
          /\ proposals[p].executed =>
               /\ proposals'[p].executed
               /\ proposals'[p].executed_at = proposals[p].executed_at
          /\ (~proposals[p].executed /\ proposals'[p].executed) =>
               /\ Did("execute_proposal", p)
               /\ last'.err = "Ok"
               /\ IntLe(proposals[p].voting_ends_at, now)
               /\ proposals'[p].executed_at = now]_vars

\* C5 witness: an executed proposal on which execute_proposal was tried again
C5_Witness ==
  \E p \in DOMAIN proposals :
    /\ proposals[p].executed
    /\ last.op = "execute_proposal"
    /\ last.key = p
    /\ last.err # "Ok"

\* C6 as claimed: on an active, unexecuted proposal execute_proposal fails
\* with VotingPeriodNotEnded and changes nothing when now < voting_ends_at,
\* and succeeds when now >= voting_ends_at and yes_votes + no_votes >=
\* quorum_votes
C6_WindowAsClaimed ==
  [][\A p \in DOMAIN proposals :
       (Did("execute_proposal", p) /\ proposals[p].is_active /\ ~proposals[p].executed) =>
         IF IntLt(now, proposals[p].voting_ends_at)
         THEN last'.err = "VotingPeriodNotEnded" /\ proposals' = proposals
         ELSE BigLe(proposals[p].quorum_votes, TotalVotes(proposals[p])) =>
                last'.err = "Ok" /\ proposals'[p].executed]_vars

\* C6: on an active, unexecuted proposal execute_proposal fails with
\* VotingPeriodNotEnded and changes nothing when now < voting_ends_at, and
\* succeeds when now >= voting_ends_at (at voting_ends_at exactly, too)
\* provided yes_votes + no_votes fits in u64 and is >= quorum_votes
C6_ExecutionWindow ==
  [][\A p \in DOMAIN proposals :
       (Did("execute_proposal", p) /\ proposals[p].is_active /\ ~proposals[p].executed) =>
         IF IntLt(now, proposals[p].voting_ends_at)
         THEN last'.err = "VotingPeriodNotEnded" /\ proposals' = proposals
         ELSE (/\ BigLe(TotalVotes(proposals[p]), U64_MAX)
               /\ BigLe(proposals[p].quorum_votes, TotalVotes(proposals[p]))) =>
                last'.err = "Ok" /\ proposals'[p].executed]_vars

\* C6 witness: a proposal with votes executed at voting_ends_at exactly
C6_Witness ==
  \E p \in DOMAIN proposals :
    /\ last.op = "execute_proposal"
    /\ last.key = p
    /\ last.err = "Ok"
    /\ now = proposals[p].voting_ends_at
    /\ TotalVotes(proposals[p]) # <<>>

\* C7: an execute_proposal on a proposal that has been executed fails with
\* ProposalAlreadyExecuted and leaves the proposal unchanged
C7_SecondExecuteError ==
  [][\A p \in DOMAIN proposals :
       (Did("execute_proposal", p) /\ proposals[p].executed) =>
         last'.err = "ProposalAlreadyExecuted" /\ proposals' = proposals]_vars

\* the proposal holds the tallies of the quorum scenario
Scenario(p, yes, no) ==
  /\ proposals[p].quorum_votes = Big(100)
  /\ proposals[p].approval_threshold_percentage = 60
  /\ proposals[p].yes_votes = Big(yes)
  /\ proposals[p].no_votes = Big(no)

\* execute_proposal has just failed for want of a quorum on the 70 / 20 scenario
ScenarioQuorumFailed(p) ==
  /\ last.op = "execute_proposal"
  /\ last.key = p
  /\ last.err = "InvalidParameters"
  /\ Scenario(p, 70, 20)

\* the outcome of a vote_on_proposal by v on p at time t
VoteOutcome(v, p, vote_yes, vote_weight, cfg, t) ==
  VoteOnProposalAccounts(v, p,
    vote_on_proposal(proposals[p], p, v, vote_yes, vote_weight, cfg, t)).err

\* C8 as claimed: once execute_proposal has failed with InvalidParameters on
\* the proposal holding yes 70 / no 20 (quorum 100, threshold 60), a further
\* yes vote of weight 15 is accepted, then or later
C8_ScenarioAsClaimed ==
  \A p \in DOMAIN proposals :
    ScenarioQuorumFailed(p) =>
      \E v \in Voters, cfg \in Configs, t \in Times :
        IntLe(now, t) /\ VoteOutcome(v, p, TRUE, Big(15), cfg, t) = "Ok"

\* C8: the proposal holding yes 70 / no 20 (quorum 100, threshold 60) fails
\* execute_proposal with InvalidParameters once voting_ends_at is reached;
\* after that failure no vote_on_proposal is accepted any more, whoever
\* votes and whatever the vote; the yes vote of weight 15 has to be cast
\* before voting_ends_at, and execute_proposal on yes 85 / no 20 succeeds
\* with yes_percentage = 80 and approved = TRUE
C8_QuorumScenario ==
  \A p \in DOMAIN proposals :
    /\ (Scenario(p, 70, 20) /\ proposals[p].is_active
          /\ IntLe(proposals[p].voting_ends_at, now)) =>
         \A e \in Keys : execute_proposal(proposals[p], e, now).err = "InvalidParameters"
    /\ ScenarioQuorumFailed(p) =>
         \A v \in Voters, cfg \in Configs, t \in Times,
            b \in Ballots \cup {<<TRUE, Big(15)>>} :
           IntLe(now, t) =>
             VoteOutcome(v, p, b[1], b[2], cfg, t) \in
               {"VotingPeriodEnded", "AccountAlreadyInUse"}
    /\ (last.op = "execute_proposal" /\ last.key = p /\ last.err = "Ok"
          /\ Scenario(p, 85, 20)) =>
         /\ last.out.yes_percentage = Big(80)
         /\ last.out.approved

\* C8 witness: the proposal of the scenario executed on yes 85 / no 20
C8_Witness ==
  \E p \in DOMAIN proposals :
    /\ last.op = "execute_proposal"
    /\ last.key = p
    /\ last.err = "Ok"
    /\ Scenario(p, 85, 20)
    /\ Cardinality(RecordsOf(p, TRUE)) = 2

\* C9: execute_proposal on an active proposal at now >= voting_ends_at fails
\* with MathOverflow when yes_votes + no_votes exceeds u64, and otherwise
\* with InvalidParameters when yes_votes + no_votes < quorum_votes; either
\* way the proposal is unchanged, and after the quorum failure it still has
\* is_active, not executed, executor = None, executed_at = 0
C9_QuorumGate ==
  [][\A p \in DOMAIN proposals :
       (/\ Did("execute_proposal", p)
        /\ proposals[p].is_active
        /\ IntLe(proposals[p].voting_ends_at, now)) =>
         IF ~BigLe(TotalVotes(proposals[p]), U64_MAX)
         THEN last'.err = "MathOverflow" /\ proposals' = proposals
         ELSE BigLt(TotalVotes(proposals[p]), proposals[p].quorum_votes) =>
                /\ last'.err = "InvalidParameters"
                /\ proposals' = proposals
                /\ proposals'[p].is_active
                /\ ~proposals'[p].executed
                /\ proposals'[p].executor = NoKey
                /\ proposals'[p].executed_at = Int64(0)]_vars

\* C9 witness: an execute_proposal has failed for want of a quorum on a
\* proposal that has votes
C9_Witness ==
  \E p \in DOMAIN proposals :
    /\ last.op = "execute_proposal"
    /\ last.key = p
    /\ last.err = "InvalidParameters"
    /\ proposals[p].is_active
    /\ proposals[p].yes_votes # <<>>
    /\ proposals[p].no_votes # <<>>

\* C10: after a successful execute_proposal the logged yes_percentage q is
\* floor(yes_votes * 100 / (yes_votes + no_votes)), that is
\* q * total <= yes_votes * 100 < (q + 1) * total, and 0 when the total is 0;
\* the u128 product did not overflow, q is in 0..100, and approved is
\* exactly q >= approval_threshold_percentage
C10_ApprovalArithmetic ==
  \A p \in DOMAIN proposals :
    (last.op = "execute_proposal" /\ last.key = p /\ last.err = "Ok") =>
      LET yes   == proposals[p].yes_votes
          total == TotalVotes(proposals[p])
          q     == last.out.yes_percentage
      IN  /\ ~last.out.overflow
          /\ BigLe(q, Big(100))
          /\ IF total = <<>> THEN q = <<>>
             ELSE /\ BigLe(BigMul(total, Small(q)), BigMul(yes, 100))
                  /\ BigLt(BigMul(yes, 100), BigMul(total, Small(q) + 1))
          /\ last.out.approved <=>
               (Small(q) >= proposals[p].approval_threshold_percentage)

\* C10 witness: a proposal executed with yes_votes = u64::MAX, where
\* yes_votes * 100 does not fit in u64
C10_Witness ==
  \E p \in DOMAIN proposals :
    /\ last.op = "execute_proposal"
    /\ last.key = p
    /\ last.err = "Ok"
    /\ proposals[p].yes_votes = U64_MAX
    /\ last.out.yes_percentage = Big(100)

(***************************************************************************)
(* Properties of the token ledger (checked under SpecToken).               *)
(***************************************************************************)
\* the instructions guarded by the authority constraint
AuthorityOps == {"transfer_authority", "update_fee_config", "set_transfer_pause"}

\* C11: a successful transfer_authority(new_authority) sets
\* pending_authority = Some(new_authority) and leaves authority unchanged;
\* and while a nomination is pending, the authority passes the authority
\* check of every guarded instruction, and a nominee other than the
\* authority fails it with Unauthorized, the record unchanged
C11_NominationIsNotTransfer ==
  [][\A k \in DOMAIN real_tokens :
       /\ (Did("transfer_authority", k) /\ last'.err = "Ok") =>
            \A n \in Authorities :
              TransferAuthority(last'.signer, k, n) =>
                /\ real_tokens'[k].pending_authority = SomeKey(n)
                /\ real_tokens'[k].authority = real_tokens[k].authority
       /\ (/\ real_tokens[k].pending_authority # NoKey
           /\ last'.op \in AuthorityOps
           /\ last'.key = k) =>
            /\ last'.signer = real_tokens[k].authority => last'.err # "Unauthorized"
            /\ (/\ last'.signer \in real_tokens[k].pending_authority
                /\ last'.signer # real_tokens[k].authority) =>
                 last'.err = "Unauthorized" /\ real_tokens' = real_tokens]_vars

\* C11 witness: a nominee who is not the authority has tried a guarded
\* instruction and was refused, after which the authority has used one
C11_Witness ==
  \E k \in DOMAIN real_tokens :
    /\ real_tokens[k].pending_authority # NoKey
    /\ real_tokens[k].authority \notin real_tokens[k].pending_authority
    /\ real_tokens[k].transfers_paused
    /\ last.op \in AuthorityOps
    /\ last.key = k
    /\ last.signer \in real_tokens[k].pending_authority
    /\ last.err = "Unauthorized"

\* C12: accept_authority by a caller who is not the pending authority (or
\* with none pending) fails with Unauthorized and changes nothing; by the
\* pending authority it succeeds, making the caller the authority and
\* clearing pending_authority; and the authority of a token record changes
\* only by a successful accept_authority of the identity then nominated
C12_Acceptance ==
  [][\A k \in DOMAIN real_tokens :
       /\ k \in DOMAIN real_tokens'
       /\ Did("accept_authority", k) =>
            IF real_tokens[k].pending_authority = SomeKey(last'.signer)
            THEN /\ last'.err = "Ok"
                 /\ real_tokens'[k].authority = last'.signer
                 /\ real_tokens'[k].pending_authority = NoKey
            ELSE last'.err = "Unauthorized" /\ real_tokens' = real_tokens
       /\ real_tokens'[k].authority # real_tokens[k].authority =>
            /\ Did("accept_authority", k)
            /\ last'.err = "Ok"
            /\ real_tokens[k].pending_authority = SomeKey(last'.signer)
            /\ real_tokens'[k].authority = last'.signer]_vars

\* C12 witness: a nominee has accepted and is the authority of a record
\* whose default fee recipient is still the initial authority
C12_Witness ==
  \E k \in DOMAIN real_tokens :
    /\ last.op = "accept_authority"
    /\ last.key = k
    /\ last.err = "Ok"
    /\ real_tokens[k].authority = last.signer
    /\ real_tokens[k].pending_authority = NoKey
    /\ real_tokens[k].fee_config.transaction_fee_bps = 25
    /\ real_tokens[k].fee_config.fee_recipient # last.signer

\* C13: in every state transaction_fee_bps <= 1000; initialize sets it to
\* 25; update_fee_config by the authority fails with InvalidParameters and
\* changes nothing when transaction_fee_bps > 1000, and otherwise succeeds
\* and replaces the three fields of fee_config by its arguments
C13_FeeCap ==
  /\ [](\A k \in DOMAIN real_tokens :
          real_tokens[k].fee_config.transaction_fee_bps <= 1000)
  /\ [][\A k \in TokenIds :
          /\ (Did("initialize", k) /\ last'.err = "Ok") =>
               real_tokens'[k].fee_config.transaction_fee_bps = 25
          /\ (/\ k \in DOMAIN real_tokens
              /\ Did("update_fee_config", k)
              /\ last'.signer = real_tokens[k].authority) =>
               \A f \in FeeBps, r \in Keys, e \in BOOLEAN :
                 UpdateFeeConfig(last'.signer, k, f, r, e) =>
                   IF f > 1000
                   THEN last'.err = "InvalidParameters" /\ real_tokens' = real_tokens
                   ELSE /\ last'.err = "Ok"
                        /\ real_tokens'[k].fee_config =
                             [transaction_fee_bps |-> f,
                              fee_recipient |-> r,
                              fees_enabled |-> e]]_vars

\* C13 witness: the fee was set to the cap of 1000, and an update_fee_config
\* of the authority has then failed
C13_Witness ==
  \E k \in DOMAIN real_tokens :
    /\ real_tokens[k].fee_config.transaction_fee_bps = 1000
    /\ last.op = "update_fee_config"
    /\ last.key = k
    /\ last.signer = real_tokens[k].authority
    /\ last.err = "InvalidParameters"

(***************************************************************************)
(* Properties of initialize (checked under SpecInitialize).                *)
(***************************************************************************)
\* q is floor(value * percentage / 100), on the exact integers
IsFloorPercentage(q, value, percentage) ==
  /\ BigLe(q, U64_MAX)
  /\ BigLe(BigMul(q, 100), BigMul(value, percentage))
  /\ BigLt(BigMul(value, percentage), BigAdd(BigMul(q, 100), Big(100)))

\* C14: every token record holds a total_supply in 1..2^64-1 and the five
\* allocations floor(total_supply * pct / 100) for pct = 40, 25, 20, 10, 5
\* (community, asset reserve, development, liquidity, team), none of them
\* truncated, and their exact sum is at most total_supply
C14_AllocationArithmetic ==
  \A k \in DOMAIN real_tokens :
    LET ts == real_tokens[k].total_supply
        d  == real_tokens[k].distribution
    IN  /\ BigLt(<<>>, ts) /\ BigLe(ts, U64_MAX)
        /\ IsFloorPercentage(d.community_allocation, ts, 40)
        /\ IsFloorPercentage(d.asset_reserve_allocation, ts, 25)
        /\ IsFloorPercentage(d.development_allocation, ts, 20)
        /\ IsFloorPercentage(d.liquidity_allocation, ts, 10)
        /\ IsFloorPercentage(d.team_allocation, ts, 5)
        /\ BigLe(BigAdd(d.community_allocation,
                   BigAdd(d.asset_reserve_allocation,
                     BigAdd(d.development_allocation,
                       BigAdd(d.liquidity_allocation, d.team_allocation)))),
                 ts)

\* C14 witness: a token initialized with total_supply = u64::MAX, whose
\* allocations sum to less than the supply
C14_Witness ==
  \E k \in DOMAIN real_tokens :
    /\ last.op = "initialize"
    /\ last.key = k
    /\ last.err = "Ok"
    /\ real_tokens[k].total_supply = U64_MAX
    /\ real_tokens[k].distribution.team_allocation =
         BigDivSmall(BigMul(U64_MAX, 5), 100)

(***************************************************************************)
(* Further properties of the asset registry (checked under SpecAsset).     *)
(***************************************************************************)
\* C15: an asset starts with total_income_distributed = 0; no step
\* decreases it; a distribute_income of the authority on an unburned asset
\* is applied exactly when the sum fits in u64, and then adds exactly its
\* amount; a distribute_income that fails, and every other instruction,
\* leaves it unchanged
C15_IncomeAccounting ==
  [][/\ \A a \in DOMAIN assets' \ DOMAIN assets :
          assets'[a].total_income_distributed = <<>>
     /\ \A a \in DOMAIN assets :
          LET old == assets[a].total_income_distributed IN
          /\ a \in DOMAIN assets'
          /\ BigLe(old, assets'[a].total_income_distributed)
          /\ ~Did("distribute_income", a) =>
               assets'[a].total_income_distributed = old
          /\ Did("distribute_income", a) =>
               \A amount \in Amounts :
                 DistributeIncome(last'.signer, a, amount) =>
                   /\ assets'[a].total_income_distributed =
                        IF last'.err = "Ok" THEN BigAdd(old, amount) ELSE old
                   /\ (last'.signer = assets[a].authority /\ ~assets[a].is_burned) =>
                        (last'.err = "Ok" <=> BigLe(BigAdd(old, amount), U64_MAX))]_vars

\* C15 witness: two distributions have brought the total to u64::MAX and a
\* third was refused
C15_Witness ==
  \E a \in DOMAIN assets :
    /\ assets[a].total_income_distributed = U64_MAX
    /\ last.op = "distribute_income"
    /\ last.key = a
    /\ last.err = "MathOverflow"

\* C16: distribute_income by the authority fails with AssetBurned on a
\* burned asset, and with MathOverflow on an unburned one when
\* total_income_distributed + amount exceeds u64; either way
\* total_income_distributed, last_income_distribution and updated_at (and
\* the rest of the record) keep their values
C16_DistributeAllOrNothing ==
  [][\A a \in DOMAIN assets :
       (Did("distribute_income", a) /\ last'.signer = assets[a].authority) =>
         \A amount \in Amounts :
           DistributeIncome(last'.signer, a, amount) =>
             /\ assets[a].is_burned => last'.err = "AssetBurned"
             /\ (/\ ~assets[a].is_burned
                 /\ ~BigLe(BigAdd(assets[a].total_income_distributed, amount), U64_MAX)) =>
                  last'.err = "MathOverflow"
             /\ last'.err # "Ok" =>
                  /\ assets'[a].total_income_distributed = assets[a].total_income_distributed
                  /\ assets'[a].last_income_distribution = assets[a].last_income_distribution
                  /\ assets'[a].updated_at = assets[a].updated_at
                  /\ assets' = assets]_vars

\* C16 witness: a distribution of the authority has overflowed at a time
\* later than the last distribution applied
C16_Witness ==
  \E a \in DOMAIN assets :
    /\ last.op = "distribute_income"
    /\ last.key = a
    /\ last.signer = assets[a].authority
    /\ last.err = "MathOverflow"
    /\ assets[a].last_income_distribution # now
    /\ assets[a].total_income_distributed # <<>>

\* the asset instructions guarded by the authority constraint
AssetAuthorityOps ==
  {"update_asset_valuation", "toggle_tradability", "burn_asset_token", "distribute_income"}

\* C17: update_asset_valuation, toggle_tradability, burn_asset_token and
\* distribute_income by a caller other than the asset's authority fail with
\* Unauthorized and change nothing, whatever the state of the asset (burned
\* or not)
C17_AssetAuthorization ==
  [][\A a \in DOMAIN assets :
       (/\ last'.op \in AssetAuthorityOps
        /\ last'.key = a
        /\ last'.signer # assets[a].authority) =>
         last'.err = "Unauthorized" /\ assets' = assets]_vars

\* C17 witness: someone other than the authority has tried to burn an asset
\* that is burned already
C17_Witness ==
  \E a \in DOMAIN assets :
    /\ assets[a].is_burned
    /\ last.op = "burn_asset_token"
    /\ last.key = a
    /\ last.signer # assets[a].authority
    /\ last.err = "Unauthorized"

(***************************************************************************)
(* Further properties of the token ledger (checked under SpecToken).       *)
(***************************************************************************)
\* C18: transfer_authority, update_fee_config and set_transfer_pause succeed
\* only for the caller that is the record's authority at that moment; any
\* other caller (a former authority after a handoff, too) fails with
\* Unauthorized and the record is unchanged; the authority of the moment (a
\* new one after a handoff, too) passes the check
C18_CurrentAuthorityOnly ==
  [][\A k \in DOMAIN real_tokens :
       (last'.op \in AuthorityOps /\ last'.key = k) =>
         /\ last'.err = "Ok" => last'.signer = real_tokens[k].authority
         /\ last'.signer # real_tokens[k].authority =>
              last'.err = "Unauthorized" /\ real_tokens' = real_tokens
         /\ last'.signer = real_tokens[k].authority =>
              /\ last'.err \in {"Ok", "InvalidParameters"}
              /\ last'.err = "InvalidParameters" => last'.op = "update_fee_config"
              /\ last'.err = "Ok" => real_tokens'[k].last_update_timestamp = now]_vars

\* C18 witness: after a handoff the new authority has paused transfers, and
\* the former authority (still the default fee recipient) was then refused
C18_Witness ==
  \E k \in DOMAIN real_tokens :
    /\ real_tokens[k].fee_config.transaction_fee_bps = 25
    /\ real_tokens[k].fee_config.fee_recipient # real_tokens[k].authority
    /\ real_tokens[k].pending_authority = NoKey
    /\ real_tokens[k].transfers_paused
    /\ last.op \in AuthorityOps
    /\ last.key = k
    /\ last.signer = real_tokens[k].fee_config.fee_recipient
    /\ last.err = "Unauthorized"

(***************************************************************************)
(* Further properties of the governance engine (checked under SpecGov).    *)
(***************************************************************************)
\* the result the preconditions of vote_on_proposal give a vote of weight
\* vote_weight cast at time t under configuration cfg
VoteResult(proposal, vote_yes, vote_weight, cfg, t) ==
  IF ~proposal.is_active THEN "ProposalInactive"
  ELSE IF ~IntLt(t, proposal.voting_ends_at) THEN "VotingPeriodEnded"
  ELSE IF BigLt(vote_weight, cfg.min_vote_balance) THEN "InvalidParameters"
  ELSE IF ~BigLe(BigAdd(IF vote_yes THEN proposal.yes_votes ELSE proposal.no_votes,
                        vote_weight), U64_MAX)
       THEN "MathOverflow"
  ELSE "Ok"

\* C19: a vote_on_proposal by a voter without a vote record on the proposal
\* fails with ProposalInactive on an inactive proposal, else with
\* VotingPeriodEnded when now >= voting_ends_at, else with InvalidParameters
\* when vote_weight < min_vote_balance, else with MathOverflow when the
\* tally it goes to would pass u64::MAX, and else succeeds; when it fails the
\* proposal and the vote records are unchanged and the voter still has no
\* record; and after a failure on weight or overflow the same voter can cast
\* a vote that succeeds
C19_VotePreconditions ==
  /\ [](\A p \in DOMAIN proposals :
          (/\ last.op = "vote_on_proposal"
           /\ last.key = p
           /\ last.err \in {"InvalidParameters", "MathOverflow"}) =>
            \E b \in Ballots, cfg \in Configs :
              VoteOutcome(last.signer, p, b[1], b[2], cfg, now) = "Ok")
  /\ [][\A p \in DOMAIN proposals :
          (/\ Did("vote_on_proposal", p)
           /\ VoteRecordKey(p, last'.signer) \notin DOMAIN vote_records) =>
            \A b \in Ballots, cfg \in Configs :
              VoteOnProposal(last'.signer, p, b[1], b[2], cfg) =>
                /\ last'.err = VoteResult(proposals[p], b[1], b[2], cfg, now)
                /\ last'.err # "Ok" =>
                     /\ proposals' = proposals
                     /\ vote_records' = vote_records
                     /\ VoteRecordKey(p, last'.signer) \notin DOMAIN vote_records']_vars

\* C19 witness: a vote has failed on overflow of a tally that holds votes,
\* and the voter has no record
C19_Witness ==
  \E p \in DOMAIN proposals :
    /\ last.op = "vote_on_proposal"
    /\ last.key = p
    /\ last.err = "MathOverflow"
    /\ proposals[p].yes_votes = U64_MAX
    /\ VoteRecordKey(p, last.signer) \notin DOMAIN vote_records

(***************************************************************************)
(* Properties of create_proposal (checked under SpecCreate).               *)
(***************************************************************************)
\* x lies in the range of i64
InI64(x) == IntLe(I64_MIN, x) /\ IntLe(x, I64_MAX)

\* the result the checks of create_proposal give at time t
CreateResult(title, description, voting_ends_at, cfg, t) ==
  IF title = "" \/ description = "" THEN "InvalidParameters"
  ELSE IF ~InI64(IntAdd(t, cfg.min_voting_period))
          \/ ~InI64(IntAdd(t, cfg.max_voting_period))
       THEN "MathOverflow"
  ELSE IF /\ IntLe(IntAdd(t, cfg.min_voting_period), voting_ends_at)
          /\ IntLe(voting_ends_at, IntAdd(t, cfg.max_voting_period))
       THEN "Ok"
  ELSE "InvalidVotingPeriod"

\* C20: a create_proposal at a fresh address fails with InvalidParameters
\* when the title or the description is empty, else with MathOverflow when
\* now + min_voting_period or now + max_voting_period leaves i64, else with
\* InvalidVotingPeriod unless now + min_voting_period <= voting_ends_at <=
\* now + max_voting_period, and else succeeds; a failure creates no proposal
\* record; and every proposal has creation_timestamp + min_voting_period <=
\* voting_ends_at
C20_VotingWindow ==
  /\ [](\A p \in DOMAIN proposals :
          IntLe(IntAdd(proposals[p].creation_timestamp, proposals[p].min_voting_period),
                proposals[p].voting_ends_at))
  /\ [][\A p \in ProposalIds :
          (Did("create_proposal", p) /\ p \notin DOMAIN proposals) =>
            \A ti \in Titles, d \in Descriptions, e \in WindowEndTimes,
               cfg \in WindowConfigs :
              CreateProposal(last'.signer, p, ti, d, e, cfg) =>
                /\ last'.err = CreateResult(ti, d, e, cfg, now)
                /\ last'.err # "Ok" => proposals' = proposals
                /\ last'.err = "Ok" =>
                     /\ p \in DOMAIN proposals'
                     /\ proposals'[p].voting_ends_at = e
                     /\ proposals'[p].creation_timestamp = now
                     /\ proposals'[p].min_voting_period = cfg.min_voting_period]_vars

\* C20 witness: a proposal created after time 0 whose voting ends at
\* now + min_voting_period exactly, the minimum being positive
C20_Witness ==
  \E p \in DOMAIN proposals :
    /\ last.op = "create_proposal"
    /\ last.key = p
    /\ last.err = "Ok"
    /\ now # Int64(0)
    /\ proposals[p].min_voting_period = Int64(1)
    /\ proposals[p].voting_ends_at = IntAdd(now, Int64(1))

(***************************************************************************)
(* Properties of the proposal life cycle (checked under SpecGov).          *)
(***************************************************************************)
\* C21: a successful create_proposal under configuration cfg stores
\* quorum_votes = cfg.min_quorum_votes, approval_threshold_percentage =
\* cfg.approval_threshold and min_voting_period = cfg.min_voting_period in a
\* proposal that is active, not executed, without votes and of type Text;
\* no later step changes the three copied fields, whatever configuration
\* later instructions are given; and execute_proposal, which is given no
\* configuration, succeeds only on a total that reaches the stored quorum
\* and approves exactly on the stored threshold
C21_ConfigSnapshot ==
  [][\A p \in ProposalIds :
       /\ (Did("create_proposal", p) /\ last'.err = "Ok") =>
            \A ti \in Titles, d \in Descriptions, e \in EndTimes, cfg \in Configs :
              CreateProposal(last'.signer, p, ti, d, e, cfg) =>
                /\ proposals'[p].quorum_votes = cfg.min_quorum_votes
                /\ proposals'[p].approval_threshold_percentage = cfg.approval_threshold
                /\ proposals'[p].min_voting_period = cfg.min_voting_period
                /\ proposals'[p].is_active
                /\ ~proposals'[p].executed
                /\ proposals'[p].yes_votes = <<>>
                /\ proposals'[p].no_votes = <<>>
                /\ proposals'[p].proposal_type = "Text"
       /\ p \in DOMAIN proposals =>
            /\ proposals'[p].quorum_votes = proposals[p].quorum_votes
            /\ proposals'[p].approval_threshold_percentage =
                 proposals[p].approval_threshold_percentage
            /\ proposals'[p].min_voting_period = proposals[p].min_voting_period
            /\ (Did("execute_proposal", p) /\ last'.err = "Ok") =>
                 /\ BigLe(proposals[p].quorum_votes, TotalVotes(proposals[p]))
                 /\ last'.out.approved <=>
                      BigLe(Big(proposals[p].approval_threshold_percentage),
                            last'.out.yes_percentage)]_vars

\* C21 witness: a proposal created with quorum 100 and threshold 60 has been
\* voted on and executed, and approved
C21_Witness ==
  \E p \in DOMAIN proposals :
    /\ last.op = "execute_proposal"
    /\ last.key = p
    /\ last.err = "Ok"
    /\ last.out.approved
    /\ proposals[p].quorum_votes = Big(100)
    /\ proposals[p].approval_threshold_percentage = 60
    /\ proposals[p].no_votes # <<>>

(***************************************************************************)
(* Creation of the records (C22 under SpecToken).                          *)
(***************************************************************************)
\* C22: an initialize at a fresh address fails with InvalidParameters and
\* creates no record when the name or the symbol is empty or total_supply
\* is 0, and otherwise succeeds with authority = caller, is_initialized,
\* transfers not paused, no pending authority and fee_config = (25 bps,
\* fee_recipient = caller, fees_enabled); and every token record has
\* total_supply > 0
C22_InitializeDefaults ==
  /\ [](\A k \in DOMAIN real_tokens : BigLt(<<>>, real_tokens[k].total_supply))
  /\ [][\A k \in TokenIds :
          (Did("initialize", k) /\ k \notin DOMAIN real_tokens) =>
            \A m \in Mints, n \in Names, sy \in Symbols, u \in Uris, ts \in Supplies :
              Initialize(last'.signer, k, m, n, sy, u, ts) =>
                IF n = "" \/ sy = "" \/ ts = <<>>
                THEN last'.err = "InvalidParameters" /\ real_tokens' = real_tokens
                ELSE /\ last'.err = "Ok"
                     /\ real_tokens'[k].authority = last'.signer
                     /\ real_tokens'[k].is_initialized
                     /\ ~real_tokens'[k].transfers_paused
                     /\ real_tokens'[k].pending_authority = NoKey
                     /\ real_tokens'[k].total_supply = ts
                     /\ real_tokens'[k].fee_config =
                          [transaction_fee_bps |-> 25,
                           fee_recipient |-> last'.signer,
                           fees_enabled |-> TRUE]]_vars

\* C22 witness: a token record just initialized
C22_Witness ==
  \E k \in DOMAIN real_tokens :
    /\ last.op = "initialize"
    /\ last.key = k
    /\ last.err = "Ok"
    /\ real_tokens[k].authority = last.signer
    /\ real_tokens[k].total_supply = Big(1000)

(***************************************************************************)
(* Single creation of every record (checked under SpecRecords).            *)
(***************************************************************************)
\* no account of `accounts` is removed by the step, and a create
\* instruction `op` aimed at an address in use fails and changes nothing
CreatedOnce(accounts, accounts_next, op) ==
  /\ \A k \in DOMAIN accounts :
       /\ k \in DOMAIN accounts_next
       /\ Did(op, k) => last'.err = "AccountAlreadyInUse" /\ accounts_next = accounts
  /\ \A k \in DOMAIN accounts_next \ DOMAIN accounts :
       /\ last'.err = "Ok"
       /\ DOMAIN accounts_next = DOMAIN accounts \cup {k}

\* C23: token records, asset records, proposals and vote records are never
\* removed; each comes to exist by one successful initialize,
\* create_asset_token, create_proposal or vote_on_proposal at its address;
\* and an initialize, create_asset_token or create_proposal aimed at an
\* existing record is rejected and leaves it as it is (authority,
\* total_supply, distribution, is_burned, tallies and executed included)
C23_SingleCreation ==
  [][/\ CreatedOnce(real_tokens, real_tokens', "initialize")
     /\ CreatedOnce(assets, assets', "create_asset_token")
     /\ CreatedOnce(proposals, proposals', "create_proposal")
     /\ \A k \in DOMAIN real_tokens' \ DOMAIN real_tokens : Did("initialize", k)
     /\ \A k \in DOMAIN assets' \ DOMAIN assets : Did("create_asset_token", k)
     /\ \A k \in DOMAIN proposals' \ DOMAIN proposals : Did("create_proposal", k)
     /\ \A k \in DOMAIN vote_records : k \in DOMAIN vote_records'
     /\ \A k \in DOMAIN vote_records' \ DOMAIN vote_records :
          /\ Did("vote_on_proposal", k[1])
          /\ last'.signer = k[2]
          /\ last'.err = "Ok"]_vars

\* C23 witness: with a burned asset, a token whose authority has changed
\* hands and an executed proposal with votes in place, a create_proposal
\* aimed at the proposal has been rejected
C23_Witness ==
  /\ \E a \in DOMAIN assets : assets[a].is_burned
  /\ \E k \in DOMAIN real_tokens :
       real_tokens[k].authority # real_tokens[k].fee_config.fee_recipient
  /\ \E p \in DOMAIN proposals :
       /\ proposals[p].executed
       /\ proposals[p].yes_votes # <<>>
       /\ last.op = "create_proposal"
       /\ last.key = p
       /\ last.err = "AccountAlreadyInUse"

\* C24: a successful execute_proposal, approving or not, sets executed,
\* clears is_active, stores now as executed_at and the caller as executor,
\* and changes no other field (tallies, quorum_votes,
\* approval_threshold_percentage and voting_ends_at among them); and on an
\* executed proposal, approved or rejected, every execute_proposal and
\* every vote_on_proposal fails and changes nothing
C24_ExecutionConsumesAttempt ==
  [][\A p \in DOMAIN proposals :
       /\ (Did("execute_proposal", p) /\ last'.err = "Ok") =>
            /\ ~proposals[p].executed
            /\ proposals'[p] = [proposals[p] EXCEPT !.executed = TRUE,
                                                    !.is_active = FALSE,
                                                    !.executed_at = now,
                                                    !.executor = SomeKey(last'.signer)]
       /\ (/\ proposals[p].executed
           /\ last'.op \in {"execute_proposal", "vote_on_proposal"}
           /\ last'.key = p) =>
            /\ last'.err # "Ok"
            /\ proposals' = proposals
            /\ vote_records' = vote_records]_vars

\* C24 witness: a proposal with votes on both sides was executed and not
\* approved
C24_Witness ==
  \E p \in DOMAIN proposals :
    /\ last.op = "execute_proposal"
    /\ last.key = p
    /\ last.err = "Ok"
    /\ ~last.out.approved
    /\ proposals[p].executed
    /\ ~proposals[p].is_active
    /\ proposals[p].yes_votes # <<>>
    /\ proposals[p].no_votes # <<>>

(***************************************************************************)
(* Further properties of initialize (checked under SpecInitialize).        *)
(***************************************************************************)
\* the exact sum of the five allocations of a token record
AllocatedSupply(real_token) ==
  BigAdd(real_token.distribution.community_allocation,
    BigAdd(real_token.distribution.asset_reserve_allocation,
      BigAdd(real_token.distribution.development_allocation,
        BigAdd(real_token.distribution.liquidity_allocation,
               real_token.distribution.team_allocation))))

\* C25: for every token record total_supply minus the sum of its five
\* allocations is between 0 and 4, and is 0 when total_supply is a multiple
\* of 20
C25_BoundedUnderAllocation ==
  \A k \in DOMAIN real_tokens :
    LET ts  == real_tokens[k].total_supply
        sum == AllocatedSupply(real_tokens[k])
    IN  /\ BigLe(sum, ts)
        /\ BigLe(ts, BigAdd(sum, Big(4)))
        /\ DivSmall(ts, 20).r = 0 => sum = ts

\* C25 witness: a token initialized with a supply of 99, of which 95 are
\* allocated
C25_Witness ==
  \E k \in DOMAIN real_tokens :
    /\ last.op = "initialize"
    /\ last.key = k
    /\ last.err = "Ok"
    /\ real_tokens[k].total_supply = Big(99)
    /\ AllocatedSupply(real_tokens[k]) = Big(95)

(***************************************************************************)
(* Further properties of create_proposal (checked under SpecCreate).       *)
(***************************************************************************)
\* C26: every proposal has approval_threshold_percentage in 0..100
C26_ThresholdRange ==
  \A p \in DOMAIN proposals :
    /\ 0 <= proposals[p].approval_threshold_percentage
    /\ proposals[p].approval_threshold_percentage <= 100

C28_FlagsCoupled ==
  /\ \A p \in DOMAIN proposals :
       /\ proposals[p].is_active = ~proposals[p].executed
       /\ proposals[p].executed <=> proposals[p].executor # NoKey
  /\ last.err # "ProposalAlreadyExecuted"

\* C28 witness: an execute_proposal on an executed proposal has failed with
\* ProposalInactive
C28_Witness ==
  \E p \in DOMAIN proposals :
    /\ proposals[p].executed
    /\ proposals[p].executor # NoKey
    /\ last.op = "execute_proposal"
    /\ last.key = p
    /\ last.err = "ProposalInactive"

\* the errors an instruction can return only after its time check passed
VotePastTimeCheck == {"Ok", "InvalidParameters", "MathOverflow"}

ExecutePastTimeCheck ==
  {"Ok", "ProposalAlreadyExecuted", "MathOverflow", "InvalidParameters"}

\* C29: the clock never goes back; a vote_on_proposal passes its time check
\* only at now < voting_ends_at and an execute_proposal only at
\* now >= voting_ends_at, so at no timestamp do both; and once
\* now >= voting_ends_at, or once the proposal is executed, no
\* vote_on_proposal on it succeeds and yes_votes and no_votes keep their
\* values in every later step
C29_NoOverlap ==
  /\ [](\A p \in DOMAIN proposals, v \in Voters, b \in Ballots, cfg \in Configs :
          ~(/\ vote_on_proposal(proposals[p], p, v, b[1], b[2], cfg, now).err
                 \in VotePastTimeCheck
            /\ execute_proposal(proposals[p], v, now).err \in ExecutePastTimeCheck))
  /\ [][/\ IntLe(now, now')
        /\ \A p \in DOMAIN proposals :
             /\ (Did("vote_on_proposal", p) /\ last'.err \in VotePastTimeCheck) =>
                  IntLt(now, proposals[p].voting_ends_at)
             /\ (Did("execute_proposal", p) /\ last'.err \in ExecutePastTimeCheck) =>
                  IntLe(proposals[p].voting_ends_at, now)
             /\ (IntLe(proposals[p].voting_ends_at, now) \/ proposals[p].executed) =>
                  /\ Did("vote_on_proposal", p) => last'.err # "Ok"
                  /\ p \in DOMAIN proposals'
                  /\ proposals'[p].yes_votes = proposals[p].yes_votes
                  /\ proposals'[p].no_votes = proposals[p].no_votes
                  /\ proposals'[p].voting_ends_at = proposals[p].voting_ends_at
                  /\ proposals[p].executed => proposals'[p].executed]_vars

\* C29 witness: a proposal that collected votes on both sides has reached
\* voting_ends_at unexecuted and a vote on it was refused with
\* VotingPeriodEnded
C29_Witness ==
  \E p \in DOMAIN proposals :
    /\ last.op = "vote_on_proposal"
    /\ last.key = p
    /\ last.err = "VotingPeriodEnded"
    /\ IntLe(proposals[p].voting_ends_at, now)
    /\ ~proposals[p].executed
    /\ proposals[p].yes_votes # <<>>
    /\ proposals[p].no_votes # <<>>

\* a proposal whose voting period ended with fewer votes than its quorum
BelowQuorumAtEnd(p) ==
  /\ p \in DOMAIN proposals
  /\ proposals[p].is_active
  /\ ~proposals[p].executed
  /\ IntLe(proposals[p].voting_ends_at, now)
  /\ BigLt(TotalVotes(proposals[p]), proposals[p].quorum_votes)

\* C30: a proposal with yes_votes + no_votes < quorum_votes at
\* now >= voting_ends_at is never executed afterwards: the clock never goes
\* back, every step leaves the proposal as it is (is_active = true,
\* executed = false, same tallies), and every execute_proposal on it fails
\* with InvalidParameters, whoever signs
C30_BelowQuorumStuck ==
  /\ [][\A p \in ProposalIds :
          BelowQuorumAtEnd(p) =>
            /\ IntLe(now, now')
            /\ p \in DOMAIN proposals'
            /\ proposals'[p] = proposals[p]
            /\ Did("execute_proposal", p) => last'.err = "InvalidParameters"]_vars
  /\ \A p \in ProposalIds :
       [](BelowQuorumAtEnd(p) =>
            [](/\ BelowQuorumAtEnd(p)
               /\ \A e \in Keys :
                    execute_proposal(proposals[p], e, now).err = "InvalidParameters"))

\* C30 witness: after voting_ends_at has passed, an execute_proposal on a
\* proposal holding some votes, but fewer than its quorum, has failed with
\* InvalidParameters and the proposal is still active
C30_Witness ==
  \E p \in ProposalIds :
    /\ BelowQuorumAtEnd(p)
    /\ IntLt(proposals[p].voting_ends_at, now)
    /\ TotalVotes(proposals[p]) # <<>>
    /\ last.op = "execute_proposal"
    /\ last.key = p
    /\ last.err = "InvalidParameters"

\* C31: in every state an executed proposal has
\* yes_votes + no_votes >= quorum_votes; a successful execute_proposal
\* leaves yes_votes, no_votes and quorum_votes as they were, and so does
\* every step taken on an executed proposal
C31_ExecutedMetQuorum ==
  /\ [](\A p \in DOMAIN proposals :
          proposals[p].executed =>
            BigLe(proposals[p].quorum_votes, TotalVotes(proposals[p])))
  /\ [][\A p \in DOMAIN proposals :
          ((Did("execute_proposal", p) /\ last'.err = "Ok") \/ proposals[p].executed) =>
            /\ p \in DOMAIN proposals'
            /\ proposals'[p].executed
            /\ proposals'[p].yes_votes = proposals[p].yes_votes
            /\ proposals'[p].no_votes = proposals[p].no_votes
            /\ proposals'[p].quorum_votes = proposals[p].quorum_votes]_vars

\* C31 witness: a proposal with a quorum of 100 was executed on 105 votes
\* and a later vote on it was refused
C31_Witness ==
  \E p \in DOMAIN proposals :
    /\ proposals[p].executed
    /\ proposals[p].quorum_votes = Big(100)
    /\ TotalVotes(proposals[p]) = Big(105)
    /\ last.op = "vote_on_proposal"
    /\ last.key = p
    /\ last.err # "Ok"

(***************************************************************************)
(* Nominations of the token ledger (checked under SpecToken).              *)
(***************************************************************************)
\* the error an accept_authority signed by b would return in the state a
\* step leads to
AcceptAfterwards(k, b) ==
  PendingAuthorityConstraint(real_tokens', k, b,
    accept_authority(real_tokens'[k], b, now')).err

\* C32: a successful transfer_authority made while a nomination is pending
\* replaces it: afterwards accept_authority succeeds for the new nominee
\* and fails with Unauthorized for everybody else, the earlier nominee
\* included; an accept_authority by anyone but the pending nominee fails
\* with Unauthorized and changes nothing; pending_authority goes from
\* Some(_) to None only in a successful accept_authority; whenever
\* authority changes pending_authority is None afterwards; and a
\* nomination appears or changes only in a successful transfer_authority
\* signed by the authority, which stays the authority
C32_LatestNominee ==
  [][\A k \in DOMAIN real_tokens :
       /\ k \in DOMAIN real_tokens'
       /\ (/\ Did("transfer_authority", k)
           /\ last'.err = "Ok"
           /\ real_tokens[k].pending_authority # NoKey) =>
            \A b \in Authorities :
              AcceptAfterwards(k, b) =
                IF real_tokens'[k].pending_authority = SomeKey(b)
                THEN "Ok" ELSE "Unauthorized"
       /\ (/\ Did("transfer_authority", k)
           /\ last'.err = "Ok") =>
            \A c \in Authorities :
              TransferAuthority(last'.signer, k, c) =>
                real_tokens'[k].pending_authority = SomeKey(c)
       /\ (/\ Did("accept_authority", k)
           /\ real_tokens[k].pending_authority # SomeKey(last'.signer)) =>
            last'.err = "Unauthorized" /\ real_tokens' = real_tokens
       /\ (/\ real_tokens[k].pending_authority # NoKey
           /\ real_tokens'[k].pending_authority = NoKey) =>
            Did("accept_authority", k) /\ last'.err = "Ok"
       /\ real_tokens'[k].authority # real_tokens[k].authority =>
            real_tokens'[k].pending_authority = NoKey
       /\ (/\ real_tokens'[k].pending_authority # real_tokens[k].pending_authority
           /\ real_tokens'[k].pending_authority # NoKey) =>
            /\ Did("transfer_authority", k)
            /\ last'.err = "Ok"
            /\ last'.signer = real_tokens[k].authority
            /\ real_tokens'[k].authority = real_tokens[k].authority]_vars

\* C32 witness: after a handoff (the authority is no longer the default fee
\* recipient) a nomination is pending, and an accept_authority by someone
\* who is neither the nominee nor the authority was refused
C32_Witness ==
  \E k \in DOMAIN real_tokens :
    /\ real_tokens[k].fee_config.transaction_fee_bps = 25
    /\ real_tokens[k].fee_config.fee_recipient # real_tokens[k].authority
    /\ real_tokens[k].pending_authority # NoKey
    /\ real_tokens[k].pending_authority # SomeKey(last.signer)
    /\ real_tokens[k].authority # last.signer
    /\ last.op = "accept_authority"
    /\ last.key = k
    /\ last.err = "Unauthorized"

(***************************************************************************)
(* Identity of an asset (checked under SpecAsset).                         *)
(***************************************************************************)
\* C33: no step changes the authority, mint, total_shares,
\* initial_share_price or created_at of an existing asset, and no step
\* removes the asset; an update_asset_valuation by the authority succeeds,
\* on a burned asset too, and changes exactly valuation and
\* current_share_price (to its arguments) and updated_at (to now)
C33_IdentityImmutable ==
  [][\A a \in DOMAIN assets :
       /\ a \in DOMAIN assets'
       /\ assets'[a].authority = assets[a].authority
       /\ assets'[a].mint = assets[a].mint
       /\ assets'[a].total_shares = assets[a].total_shares
       /\ assets'[a].initial_share_price = assets[a].initial_share_price
       /\ assets'[a].created_at = assets[a].created_at
       /\ (Did("update_asset_valuation", a) /\ last'.signer = assets[a].authority) =>
            \A v \in Valuations, p \in NewSharePrices :
              UpdateAssetValuation(last'.signer, a, v, p) =>
                /\ last'.err = "Ok"
                /\ assets'[a] = [assets[a] EXCEPT !.valuation = v,
                                                  !.current_share_price = p,
                                                  !.updated_at = now]]_vars

\* C33 witness: a burned, verified asset that has received income has just
\* been revalued, at a later time than its creation, to a share price other
\* than its initial one
C33_Witness ==
  \E a \in DOMAIN assets :
    /\ last.op = "update_asset_valuation"
    /\ last.key = a
    /\ last.err = "Ok"
    /\ assets[a].is_burned
    /\ assets[a].is_verified
    /\ assets[a].total_income_distributed # <<>>
    /\ assets[a].current_share_price # assets[a].initial_share_price
    /\ assets[a].updated_at # assets[a].created_at

(***************************************************************************)
(* What the governance engine reads of a GovernanceConfig (checked under   *)
(* SpecGov).                                                               *)
(***************************************************************************)
\* configurations that differ from cfg in governance_active, in
\* min_proposal_balance, in min_vote_balance, and in all three, and agree
\* with it on min_voting_period, max_voting_period, min_quorum_votes and
\* approval_threshold
SameForCreation(cfg) ==
  { [cfg EXCEPT !.governance_active = ~cfg.governance_active],
    [cfg EXCEPT !.min_proposal_balance = U64_MAX],
    [cfg EXCEPT !.min_vote_balance = U64_MAX],
    [cfg EXCEPT !.governance_active = ~cfg.governance_active,
                !.min_proposal_balance = U64_MAX,
                !.min_vote_balance = <<>>,
                !.authority = "bob"] }

\* configurations that differ from cfg in governance_active, in
\* min_proposal_balance, in the four fields read at creation, and in all
\* of them, and agree with it on min_vote_balance
SameForVote(cfg) ==
  { [cfg EXCEPT !.governance_active = ~cfg.governance_active],
    [cfg EXCEPT !.min_proposal_balance = U64_MAX],
    [cfg EXCEPT !.min_voting_period = I64_MAX,
                !.max_voting_period = I64_MIN,
                !.min_quorum_votes = U64_MAX,
                !.approval_threshold = 255],
    [cfg EXCEPT !.governance_active = ~cfg.governance_active,
                !.min_proposal_balance = U64_MAX,
                !.min_voting_period = Int64(0),
                !.max_voting_period = Int64(0),
                !.min_quorum_votes = Big(1),
                !.approval_threshold = 0,
                !.authority = "bob"] }

====
